---- MODULE Spec2Model ----
(***************************************************************************)
(* Privilege Command Controller (yahoo/privilege-cmd-controller).          *)
(*                                                                         *)
(* One target pod whose annotations are stored at the API server, the      *)
(* privileged pods of the admin namespace, the informer's ordered stream   *)
(* of pod-update events, and the single worker that runs handleUpdate on   *)
(* one event at a time.  Every API call of a handler is one step, so the   *)
(* client, other annotation writers and the kubelet interleave with a      *)
(* running handler exactly where the real calls leave room for them.       *)
(***************************************************************************)
EXTENDS Integers, Sequences, FiniteSets, TLC

\* ------------------------------------------------------------------ bounds
MaxRequests == 2      \* external writes of status active
MaxOtherWrites == 1   \* writes of other actors to an unrelated annotation
MaxFaults == 1        \* failures the environment injects (API errors, timeouts, exec failures)
MaxKeys == 2          \* length of the key list of a direct applyAnnotationDeletionOnPod call
MaxActionLen == 3     \* characters of the action text of a direct executeNsenterCommand call
MaxClock == 5         \* seconds a direct createPrivilegedPod call is followed for
MaxNameLen == 2       \* characters of a pod or container name whose derived name is computed
MaxStatusUpdates == 3 \* status updates of the privileged pod during such a call

\* --------------------------------------------------------------- constants
AnnotationExecuteStatus == "privileged-command-status"
AnnotationExecuteContainer == "privileged-command-container"
AnnotationExecuteAction == "privileged-command-action"
StatusActive == "active"
StatusInProgress == "in-progress"
StatusDone == "done"
StatusError == "error"

\* An annotation other writers own (the tests' pre-existing annotation).
OtherAnnotation == "init-annotation1"

ProtocolKeys == {AnnotationExecuteStatus, AnnotationExecuteContainer, AnnotationExecuteAction}
Keys == ProtocolKeys \cup {OtherAnnotation}

\* A Go map[string]string over Keys: Absent marks a key that is not in the map.
Absent == "<absent>"
NoAnnotations == [k \in Keys |-> Absent]

\* m[k] of Go: the zero value "" for a key that is not in the map.
Get(m, k) == IF m[k] = Absent THEN "" ELSE m[k]
Present(m) == {k \in Keys : m[k] # Absent}

\* ----------------------------------------------------------------- strings
\* The characters of the names the model uses (a Go string is its bytes).
Chars(s) ==
    CASE s = "test_Pod" -> <<"t", "_", "P">>
      [] s = "c_A"      -> <<"c", "_", "A">>
      [] s = "c-a"      -> <<"c", "-", "a">>
      [] s = "c_B"      -> <<"c", "_", "B">>
      [] s = "gcore 1"  -> <<"g", "c", "o", "r", "e", " ", "1">>
      [] OTHER          -> <<>>

\* strings.ToLower on one character.
ToLowerChar(ch) ==
    CASE ch = "P" -> "p"
      [] ch = "A" -> "a"
      [] ch = "B" -> "b"
      [] OTHER    -> ch

\* strings.Replace(s, "_", "-", -1) on one character.
ReplaceChar(ch) == IF ch = "_" THEN "-" ELSE ch

\* A derivation that replaces the underscores and keeps the case.
DerivePrivPodName_KeepsCase(podChars, containerChars) ==
    LET raw == <<"p", "r", "i", "v", "_">> \o podChars \o <<"_">> \o containerChars
    IN  [i \in 1..Len(raw) |-> ReplaceChar(raw[i])]

\* fmt.Sprintf("priv_%s_%s", pod, container), every "_" replaced by "-", lower-cased.
DerivePrivPodName(podChars, containerChars) ==
    LET raw == <<"p", "r", "i", "v", "_">> \o podChars \o <<"_">> \o containerChars
    IN  [i \in 1..Len(raw) |-> ToLowerChar(ReplaceChar(raw[i]))]

\* The derivation on the names of the model.
PrivPodName(podName, container) == DerivePrivPodName(Chars(podName), Chars(container))

\* ------------------------------------------------------------- target pods
TargetPodName == "test_Pod"
ContainerNames == {"c_A", "c-a", "c_B"}
UserActions == {"", "gcore 1"}

\* ContainerID values of a container status: docker://<id>, and not yet populated.
DockerID == <<"d", "o", "c", "k", "e", "r", ":", "/", "/", "i", "d">>
NoID == <<>>

\* The shapes of target pod the model starts from: spec.nodeName,
\* status.containerStatuses and status.initContainerStatuses (name,
\* containerID) of the pod.
TargetShapes ==
    { [nodeName |-> "targetNode",
       containerStatuses |-> << [Name |-> "c_A", ContainerID |-> DockerID],
                                [Name |-> "c-a", ContainerID |-> DockerID],
                                [Name |-> "c_B", ContainerID |-> DockerID] >>,
       initContainerStatuses |-> <<>>],
      [nodeName |-> "",
       containerStatuses |-> << [Name |-> "c_A", ContainerID |-> DockerID],
                                [Name |-> "c-a", ContainerID |-> DockerID],
                                [Name |-> "c_B", ContainerID |-> DockerID] >>,
       initContainerStatuses |-> <<>>],
      [nodeName |-> "targetNode",
       containerStatuses |-> << [Name |-> "c_A", ContainerID |-> NoID] >>,
       initContainerStatuses |-> <<>>] }

\* CmdArgs.PrivPodTimeout in seconds, as the tests set it.
PrivPodTimeout == 3

\* The prefix docker:// that handleActiveStatus cuts with ContainerID[9:].
SchemePrefixLen == 9

\* The loop of handleActiveStatus over Status.ContainerStatuses: every entry
\* named like the container annotation sets containerID = ContainerID[9:]; the
\* slice expression panics when ContainerID is shorter than 9 bytes.
RECURSIVE ScanContainerStatuses(_, _, _)
ScanContainerStatuses(statuses, name, found) ==
    IF statuses = <<>> THEN [panic |-> FALSE, id |-> found]
    ELSE LET p == Head(statuses)
         IN  IF p.Name = name
             THEN IF Len(p.ContainerID) < SchemePrefixLen
                  THEN [panic |-> TRUE, id |-> <<>>]
                  ELSE ScanContainerStatuses(Tail(statuses), name,
                           SubSeq(p.ContainerID, SchemePrefixLen + 1, Len(p.ContainerID)))
             ELSE ScanContainerStatuses(Tail(statuses), name, found)

ResolveContainerID(pod, name) == ScanContainerStatuses(pod.containerStatuses, name, <<>>)

\* getNodeName: the node of the pod spec, an error when it is empty.
getNodeName(pod) == [err |-> pod.nodeName = "", nodeName |-> pod.nodeName]

\* ----------------------------------------------------------- remote command
\* unicode.IsSpace on the characters the model uses.
IsSpace(ch) == ch \in {" ", "\t", "\n"}

\* strings.Fields(action): the action split around runs of white space; no
\* empty token, none at all for an action of white space only.
RECURSIVE FieldsFrom(_, _, _)
FieldsFrom(chars, token, tokens) ==
    IF chars = <<>>
    THEN IF token = <<>> THEN tokens ELSE Append(tokens, token)
    ELSE IF IsSpace(Head(chars))
         THEN FieldsFrom(Tail(chars), <<>>,
                         IF token = <<>> THEN tokens ELSE Append(tokens, token))
         ELSE FieldsFrom(Tail(chars), Append(token, Head(chars)), tokens)

Fields(chars) == FieldsFrom(chars, <<>>, <<>>)

\* A cut that takes the newline off and leaves the quote behind the PID.
TrimPID_LeavesQuote(output) ==
    IF Len(output) < 2 THEN [panic |-> TRUE, pid |-> <<>>]
    ELSE [panic |-> FALSE, pid |-> SubSeq(output, 2, Len(output) - 1)]

\* getPID after a successful docker inspect: pid = pid[1 : len(pid)-2], which
\* cuts the quote in front and the quote and the newline behind; on an output
\* of fewer than three characters the slice expression panics.
TrimPID(output) ==
    IF Len(output) < 3 THEN [panic |-> TRUE, pid |-> <<>>]
    ELSE [panic |-> FALSE, pid |-> SubSeq(output, 2, Len(output) - 2)]

\* The words executeNsenterCommand puts in front of the user's command.
NsenterWord == <<"n", "s", "e", "n", "t", "e", "r">>
TargetFlag == <<"-", "-", "t", "a", "r", "g", "e", "t">>
IpcFlag == <<"-", "-", "i", "p", "c">>
UtsFlag == <<"-", "-", "u", "t", "s">>
NetFlag == <<"-", "-", "n", "e", "t">>
PidFlag == <<"-", "-", "p", "i", "d">>
MountFlag == <<"-", "-", "m", "o", "u", "n", "t">>

\* What docker inspect --format '{{ .State.Pid }}' prints for a running
\* container: the PID between the quotes of the format, and a newline.
InspectOutput == <<"'", "7", "'", "\n">>

\* The command of the example in the source comment, which also enters the
\* mount namespace.
commandToExecute_WithMount(pid, command) ==
    <<NsenterWord, TargetFlag, pid, MountFlag, IpcFlag, UtsFlag, NetFlag, PidFlag>> \o command

\* commandToExecute of executeNsenterCommand.
commandToExecute(pid, command) ==
    <<NsenterWord, TargetFlag, pid, IpcFlag, UtsFlag, NetFlag, PidFlag>> \o command

\* --------------------------------------------------------- annotation patch
\* json.Marshal of the pod: metadata.annotations is omitempty, so an empty map
\* is left out of the document.
AnnotationsOmitted(m) == Present(m) = {}

\* strategicpatch.CreateTwoWayMergePatch(newPod, modifiedPod): the keys whose
\* value was added or changed, the keys that were removed (null in the patch);
\* when the modified document has no annotations field and the original has
\* one, the patch is metadata.annotations: null (dropAll).
CreateTwoWayMergePatch(original, modified) ==
    IF AnnotationsOmitted(modified)
    THEN [dropAll |-> ~AnnotationsOmitted(original), set |-> NoAnnotations, del |-> {}]
    ELSE [dropAll |-> FALSE,
          set |-> [k \in Keys |-> IF modified[k] # Absent /\ modified[k] # original[k]
                                  THEN modified[k] ELSE Absent],
          del |-> {k \in Keys : original[k] # Absent /\ modified[k] = Absent}]

\* A server that takes the patch for the whole annotation map: what the patch
\* does not set is gone.
ApplyPatch_ReplacesMap(current, patch) ==
    IF patch.dropAll THEN NoAnnotations
    ELSE [k \in Keys |-> patch.set[k]]

\* The API server applying a strategic merge patch to the stored annotations.
ApplyPatch(current, patch) ==
    IF patch.dropAll THEN NoAnnotations
    ELSE [k \in Keys |-> IF patch.set[k] # Absent THEN patch.set[k]
                         ELSE IF k \in patch.del THEN Absent
                         ELSE current[k]]

\* applyAnnotationUpdateOnPod up to the patch call: the snapshot with the pairs
\* written into it, and the patch between the snapshot before and after.
applyAnnotationUpdateOnPod(snapshot, addOrUpdate) ==
    LET modified == [k \in Keys |-> IF addOrUpdate[k] # Absent THEN addOrUpdate[k]
                                    ELSE snapshot[k]]
    IN  [snapshot |-> modified, patch |-> CreateTwoWayMergePatch(snapshot, modified)]

\* The loop of applyAnnotationDeletionOnPod: keys are deleted from the snapshot
\* in list order; the first key whose value reads "" returns the error, with
\* the keys before it already deleted from the snapshot.
RECURSIVE DeleteKeys(_, _)
DeleteKeys(snapshot, keys) ==
    IF keys = <<>> THEN [err |-> FALSE, snapshot |-> snapshot]
    ELSE IF Get(snapshot, Head(keys)) = ""
         THEN [err |-> TRUE, snapshot |-> snapshot]
         ELSE DeleteKeys([snapshot EXCEPT ![Head(keys)] = Absent], Tail(keys))

\* applyAnnotationDeletionOnPod up to the patch call: err (an annotation to be
\* deleted does not exist, no patch is computed), the snapshot as the loop left
\* it, and the patch between the snapshot before and after.
applyAnnotationDeletionOnPod(snapshot, deleteAnnotations) ==
    LET r == DeleteKeys(snapshot, deleteAnnotations)
    IN  [err |-> r.err, snapshot |-> r.snapshot,
         patch |-> CreateTwoWayMergePatch(snapshot, r.snapshot)]

\* An upsert that puts a failed request back to active, to be tried again.
updatePrivilegedCommandExecutorAnnotation_Reactivates(snapshot, status) ==
    applyAnnotationUpdateOnPod(snapshot,
        [NoAnnotations EXCEPT ![AnnotationExecuteStatus] =
            IF status = StatusError THEN StatusActive ELSE status])

\* updatePrivilegedCommandExecutorAnnotation: upsert of the status key alone.
updatePrivilegedCommandExecutorAnnotation(snapshot, status) ==
    applyAnnotationUpdateOnPod(snapshot,
        [NoAnnotations EXCEPT ![AnnotationExecuteStatus] = status])

\* deletePrivilegedCommandExecutorAnnotation: deletion of the three keys, in
\* the order status, container, action.
deletePrivilegedCommandExecutorAnnotation(snapshot) ==
    applyAnnotationDeletionOnPod(snapshot,
        <<AnnotationExecuteStatus, AnnotationExecuteContainer, AnnotationExecuteAction>>)

\* -------------------------------------------------------------------- state
VARIABLES
    target,      \* the target pod's spec.nodeName and status.containerStatuses
    stored,      \* the target pod's annotations at the API server
    privPods,    \* the pods of the privileged namespace: name -> node, phase
    queue,       \* pod-update events the informer has not delivered yet (old, new)
    pc,          \* where the worker is inside handleUpdate
    cur,         \* the locals of the running handleUpdate call
    log,         \* what the running handleUpdate call has done so far, in order
    nReq,        \* external writes of status active so far
    nExec,       \* times the user's command was run since the last of them
    nOther,      \* writes of other actors so far
    nFaults,     \* injected failures so far
    failed,      \* a call of the controller has failed since status active was last written
    call         \* a direct call of an annotation helper (HelperSpec), its arguments and result

vars == <<target, stored, privPods, queue, pc, cur, log, nReq, nExec, nOther, nFaults, failed, call>>

NoError == [wrap |-> "", kind |-> "", pod |-> <<>>, seconds |-> 0, phase |-> ""]
Error(kind) == [wrap |-> "", kind |-> kind, pod |-> <<>>, seconds |-> 0, phase |-> ""]

\* The error of createPrivilegedPod at the timeout: "privileged pod <p.Name>
\* is not running after <PrivPodTimeout> seconds, it is currently in
\* <p.Status.Phase> phase", p the pod the read at the timeout returned (a pod
\* without name and phase when there is none).
PodNotRunning(pods, name) ==
    [wrap |-> "", kind |-> "privileged pod is not running",
     pod |-> IF name \in DOMAIN pods THEN name ELSE <<>>,
     seconds |-> PrivPodTimeout,
     phase |-> IF name \in DOMAIN pods THEN pods[name].phase ELSE ""]

NoRequest ==
    [old |-> NoAnnotations, new |-> NoAnnotations, event |-> NoAnnotations,
     accepted |-> FALSE, privPodName |-> <<>>, containerID |-> <<>>,
     nodeName |-> "", pid |-> <<>>, command |-> <<>>, err |-> NoError]

\* No helper is called directly while the controller runs.
NoCall == [phase |-> "none", op |-> "none", snapshot |-> NoAnnotations, keys |-> <<>>,
           pairs |-> NoAnnotations, before |-> NoAnnotations, err |-> FALSE,
           patched |-> FALSE, again |-> FALSE,
           action |-> <<>>, output |-> <<>>, pid |-> <<>>, command |-> <<>>,
           watch |-> "none", events |-> <<>>, received |-> <<>>, elapsed |-> 0,
           timer |-> 0, reads |-> 0, updates |-> 0, error |-> NoError,
           name |-> "", id |-> <<>>, nodeName |-> "",
           podChars |-> <<>>, containerChars |-> <<>>, privPodName |-> <<>>]

\* One entry of log: an operation, its argument and whether it succeeded.
Did(op, arg, ok) == [op |-> op, arg |-> arg, ok |-> ok]

PodExists(name) == name \in DOMAIN privPods
NoPods == [n \in {} |-> [nodeName |-> "", phase |-> ""]]

\* CmdArgs.Namespace, the namespace of the privileged pods (flag namespace).
Namespace == "kube-pcc"

\* The API server storing new annotations: a modification is a pod-update
\* event (old object, new object) for the informer; a patch that changes
\* nothing is none.
Store(new) ==
    /\ stored' = new
    /\ queue' = IF new = stored THEN queue
                ELSE Append(queue, [old |-> stored, new |-> new])

Faulty == nFaults < MaxFaults
Fault == nFaults' = nFaults + 1
NoFault == nFaults' = nFaults

Init ==
    /\ target \in TargetShapes
    /\ stored \in {NoAnnotations, [NoAnnotations EXCEPT ![OtherAnnotation] = "init-value1"]}
    /\ privPods = NoPods
    /\ queue = <<>>
    /\ pc = "idle"
    /\ cur = NoRequest
    /\ log = <<>>
    /\ nReq = 0
    /\ nExec = 0
    /\ nOther = 0
    /\ nFaults = 0
    /\ failed = FALSE
    /\ call = NoCall

\* -------------------------------------------------------------- environment
\* The client (kubectl plugin) annotates the pod with the three keys, status
\* active, on an idle pod or to retry after status error.
ClientRequest ==
    /\ \/ \A k \in ProtocolKeys : stored[k] = Absent
       \/ stored[AnnotationExecuteStatus] = StatusError
    /\ nReq < MaxRequests
    /\ \E c \in ContainerNames, a \in UserActions :
          Store([stored EXCEPT ![AnnotationExecuteStatus] = StatusActive,
                               ![AnnotationExecuteContainer] = c,
                               ![AnnotationExecuteAction] = a])
    /\ failed' = FALSE
    /\ nReq' = nReq + 1
    /\ nExec' = 0
    /\ UNCHANGED <<target, privPods, pc, cur, log, nOther, nFaults, call>>

\* After status error the client may instead remove the three annotations.
ClientAbandon ==
    /\ stored[AnnotationExecuteStatus] = StatusError
    /\ Store([k \in Keys |-> IF k \in ProtocolKeys THEN Absent ELSE stored[k]])
    /\ UNCHANGED <<target, privPods, pc, cur, log, nReq, nExec, nOther, nFaults, failed, call>>

\* Another actor writes or removes an annotation of its own.
OtherActorWrite ==
    /\ nOther < MaxOtherWrites
    /\ \E v \in {Absent, "init-value1"} :
          /\ v # stored[OtherAnnotation]
          /\ Store([stored EXCEPT ![OtherAnnotation] = v])
    /\ nOther' = nOther + 1
    /\ UNCHANGED <<target, privPods, pc, cur, log, nReq, nExec, nFaults, failed, call>>

\* The kubelet of the node brings a privileged pod up: "" -> Pending -> Running.
KubeletSync ==
    /\ \E n \in DOMAIN privPods :
          /\ privPods[n].phase # "Running"
          /\ privPods' = [privPods EXCEPT ![n].phase =
                              IF privPods[n].phase = "" THEN "Pending" ELSE "Running"]
    /\ UNCHANGED <<target, stored, queue, pc, cur, log, nReq, nExec, nOther, nFaults, failed, call>>

\* --------------------------------------------------------------- API calls
\* Pods(ns).Patch on the target pod: applied to the stored annotations, or
\* failed (conflict, connectivity) with nothing stored.
patchPod(patch, ok) ==
    /\ failed' = (failed \/ ~ok)
    /\ IF ok THEN NoFault /\ Store(ApplyPatch(stored, patch))
       ELSE Faulty /\ Fault /\ UNCHANGED <<stored, queue>>

\* A deletion that takes a pod that is not there for deleted.
deletePod_Idempotent(name, ok) ==
    /\ failed' = (failed \/ ~ok)
    /\ IF ok
       THEN /\ privPods' = [n \in DOMAIN privPods \ {name} |-> privPods[n]]
            /\ NoFault
       ELSE /\ privPods' = privPods
            /\ PodExists(name)
            /\ Faulty
            /\ Fault

\* deletePod: Pods(ns).Delete(privPodName); the delete of a pod that does not
\* exist is an error (not found), as is a failed call.
deletePod(name, ok) ==
    /\ failed' = (failed \/ ~ok)
    /\ IF ok
       THEN /\ PodExists(name)
            /\ privPods' = [n \in DOMAIN privPods \ {name} |-> privPods[n]]
            /\ NoFault
       ELSE /\ privPods' = privPods
            /\ IF PodExists(name) THEN Faulty /\ Fault ELSE NoFault

\* execCommandOnPod: a command is run in the privileged pod over the exec
\* subresource; it fails when the pod is not there or the stream fails.
execCommandOnPod(name, ok) ==
    /\ failed' = (failed \/ ~ok)
    /\ IF ok THEN PodExists(name) /\ NoFault
       ELSE IF PodExists(name) THEN Faulty /\ Fault ELSE NoFault

\* A pod spec that leaves out the node: the pod would be scheduled anywhere.
privilegedPodSpec_NoNodeName(nodeName) ==
    [namespace |-> Namespace, nodeName |-> "", hostPID |-> TRUE, privileged |-> TRUE,
     restartPolicy |-> "Never", phase |-> ""]

\* A pod spec that sets no restart policy: the API server defaults it to Always.
privilegedPodSpec_DefaultRestart(nodeName) ==
    [namespace |-> Namespace, nodeName |-> nodeName, hostPID |-> TRUE,
     privileged |-> TRUE, restartPolicy |-> "Always", phase |-> ""]

\* privilegedPodSpec: the pod createPrivilegedPod submits (name in the key):
\* ObjectMeta.Namespace, Spec.HostPID, Spec.NodeName, Spec.RestartPolicy and
\* the SecurityContext.Privileged of its one container; no phase yet.
privilegedPodSpec(nodeName) ==
    [namespace |-> Namespace, nodeName |-> nodeName, hostPID |-> TRUE,
     privileged |-> TRUE, restartPolicy |-> "Never", phase |-> ""]

\* A creation that takes a pod of that name already there for its own.
createPod_AcceptsExisting(name, nodeName, ok) ==
    /\ failed' = (failed \/ ~ok)
    /\ IF ok
       THEN /\ privPods' = [n \in DOMAIN privPods \cup {name} |->
                               IF n = name /\ ~PodExists(name)
                               THEN privilegedPodSpec(nodeName) ELSE privPods[n]]
            /\ NoFault
       ELSE /\ privPods' = privPods
            /\ Faulty
            /\ Fault

\* createPod: Pods(ns).Create; a pod of that name already there is an error
\* (already exists), as is a failed call.
createPod(name, nodeName, ok) ==
    /\ failed' = (failed \/ ~ok)
    /\ IF ok
       THEN /\ ~PodExists(name)
            /\ privPods' = [n \in DOMAIN privPods \cup {name} |->
                               IF n = name THEN privilegedPodSpec(nodeName) ELSE privPods[n]]
            /\ NoFault
       ELSE /\ privPods' = privPods
            /\ IF PodExists(name) THEN NoFault ELSE Faulty /\ Fault

\* --------------------------------------------------------------- controller
\* The guard of handleUpdate: the three protocol keys of the new object are
\* all non-empty (a nil map reads "" for every key).
Qualifies(newPodResource) ==
    /\ Get(newPodResource, AnnotationExecuteContainer) # ""
    /\ Get(newPodResource, AnnotationExecuteAction) # ""
    /\ Get(newPodResource, AnnotationExecuteStatus) # ""

\* The switch of Process on the status of the new object.
Process(newPodResource) ==
    CASE Get(newPodResource, AnnotationExecuteStatus) = StatusActive -> "handleActiveStatus"
      [] Get(newPodResource, AnnotationExecuteStatus) = StatusDone   -> "handleDoneStatus"
      [] OTHER                                                       -> "none"

\* A Process that swallows the error of the done-handler.
ProcessReturn_SwallowsDoneError(handler, err) ==
    IF err = NoError \/ handler = "handleDoneStatus" THEN NoError
    ELSE [err EXCEPT !.wrap = StatusActive]

\* What Process returns for what its handler returned: the cause wrapped into
\* "unable to act upon annotation ... change to <status>", nil for nil.
ProcessReturn(handler, err) ==
    IF err = NoError THEN NoError
    ELSE [err EXCEPT !.wrap = IF handler = "handleActiveStatus" THEN StatusActive
                              ELSE StatusDone]

\* handleUpdate after Process returned: err != nil starts the cleanup.
AfterProcess(err) == IF err = NoError THEN "returned" ELSE "error_delete"

\* A handler returns e: Process wraps it and handleUpdate goes on from there.
Finish(handler, e, lg, c) ==
    LET r == ProcessReturn(handler, e)
    IN  /\ log' = lg \o << Did(handler, "return", e = NoError),
                           Did("Process", "return", r = NoError) >>
        /\ cur' = [c EXCEPT !.err = r]
        /\ pc' = AfterProcess(r)

\* handleUpdate takes the next event: the guard, the request spec, Process.
handleUpdate ==
    /\ pc = "idle"
    /\ queue # <<>>
    /\ LET ev == Head(queue)
           c  == [NoRequest EXCEPT !.old = ev.old, !.new = ev.new, !.event = ev.new]
           h  == Process(ev.new)
       IN  IF ~Qualifies(ev.new)
           THEN /\ cur' = c
                /\ log' = <<>>
                /\ pc' = "returned"
           ELSE /\ cur' = [c EXCEPT !.accepted = TRUE,
                                    !.privPodName = PrivPodName(TargetPodName,
                                        Get(ev.new, AnnotationExecuteContainer))]
                /\ IF h = "none"
                   THEN /\ log' = << Did("Process", "call", TRUE),
                                     Did("Process", "return", TRUE) >>
                        /\ pc' = "returned"
                   ELSE /\ log' = << Did("Process", "call", TRUE), Did(h, "call", TRUE) >>
                        /\ pc' = IF h = "handleActiveStatus" THEN "active_inprogress"
                                 ELSE "done_delete"
    /\ queue' = Tail(queue)
    /\ UNCHANGED <<target, stored, privPods, nReq, nExec, nOther, nFaults, failed, call>>

\* handleActiveStatus: status in-progress is written, then the container ID
\* and the node name are resolved.
handleActiveStatus_InProgress ==
    /\ pc = "active_inprogress"
    /\ LET u    == updatePrivilegedCommandExecutorAnnotation(cur.new, StatusInProgress)
           c1   == [cur EXCEPT !.new = u.snapshot]
           cid  == ResolveContainerID(target, Get(u.snapshot, AnnotationExecuteContainer))
           node == getNodeName(target)
       IN  \E ok \in BOOLEAN :
             /\ patchPod(u.patch, ok)
             /\ LET lg == Append(log, Did("patch", StatusInProgress, ok))
                IN  IF ~ok
                    THEN Finish("handleActiveStatus", Error("failed to update annotation"), lg, c1)
                    ELSE IF cid.panic
                    THEN pc' = "crashed" /\ cur' = c1 /\ log' = lg
                    ELSE IF cid.id = <<>>
                    THEN Finish("handleActiveStatus", Error("no matching container ID"), lg, c1)
                    ELSE IF node.err
                    THEN Finish("handleActiveStatus", Error("failed to detect target node"), lg, c1)
                    ELSE /\ pc' = "active_create"
                         /\ cur' = [c1 EXCEPT !.containerID = cid.id,
                                              !.nodeName = node.nodeName]
                         /\ log' = lg
    /\ UNCHANGED <<target, privPods, nReq, nExec, nOther, call>>

\* createPrivilegedPod: the pod is created.
createPrivilegedPod_Create ==
    /\ pc = "active_create"
    /\ \E ok \in BOOLEAN :
         /\ createPod(cur.privPodName, cur.nodeName, ok)
         /\ LET lg == Append(log, Did("create", cur.nodeName, ok))
            IN  IF ok
                THEN pc' = "active_open" /\ cur' = cur /\ log' = lg
                ELSE Finish("handleActiveStatus", Error("failed to create pod"), lg, cur)
    /\ UNCHANGED <<target, stored, queue, nReq, nExec, nOther, call>>

\* createPrivilegedPod: the watch on the pod's name is opened, or Watch fails
\* and the error is returned.
createPrivilegedPod_Watch ==
    /\ pc = "active_open"
    /\ \/ /\ NoFault
          /\ failed' = failed
          /\ pc' = "active_watch"
          /\ cur' = cur
          /\ log' = Append(log, Did("watch", "open", TRUE))
       \/ /\ Faulty
          /\ Fault
          /\ failed' = TRUE
          /\ Finish("handleActiveStatus", Error("error starting watcher for privilege pod"),
                    Append(log, Did("watch", "open", FALSE)), cur)
    /\ UNCHANGED <<target, stored, privPods, queue, nReq, nExec, nOther, call>>

\* createPrivilegedPod: a watch event reports phase Running, or the timeout
\* fires, the pod is read once and its phase goes into the error; the watch
\* is stopped either way.
createPrivilegedPod_Wait ==
    /\ pc = "active_watch"
    /\ \/ /\ PodExists(cur.privPodName)
          /\ privPods[cur.privPodName].phase = "Running"
          /\ NoFault
          /\ failed' = failed
          /\ pc' = "active_getpid"
          /\ cur' = cur
          /\ log' = log \o << Did("watch", "Running", TRUE), Did("watch", "stop", TRUE) >>
       \/ /\ Faulty
          /\ Fault
          /\ failed' = TRUE
          /\ LET e == PodNotRunning(privPods, cur.privPodName)
             IN  Finish("handleActiveStatus", e,
                        log \o << Did("watch", "timeout", FALSE),
                                  Did("get", e.phase, PodExists(cur.privPodName)),
                                  Did("watch", "stop", TRUE) >>, cur)
    /\ UNCHANGED <<target, stored, privPods, queue, nReq, nExec, nOther, call>>

\* executeNsenterCommand, first half: getPID runs docker inspect in the pod.
getPID ==
    /\ pc = "active_getpid"
    /\ \E ok \in BOOLEAN :
         /\ execCommandOnPod(cur.privPodName, ok)
         /\ LET lg == Append(log, Did("exec", "docker inspect", ok))
            IN  IF ok
                THEN /\ pc' = "active_exec"
                     /\ cur' = [cur EXCEPT !.pid = TrimPID(InspectOutput).pid]
                     /\ log' = lg
                ELSE Finish("handleActiveStatus",
                            Error("failed to execute command: unable to retrieve PID"), lg, cur)
    /\ UNCHANGED <<target, stored, privPods, queue, nReq, nExec, nOther, call>>

\* An active-handler that goes on to write done when nsenter has failed.
executeNsenterCommand_IgnoresError ==
    /\ pc = "active_exec"
    /\ \E ok \in BOOLEAN :
         /\ execCommandOnPod(cur.privPodName, ok)
         /\ pc' = "active_done"
         /\ cur' = [cur EXCEPT !.command = commandToExecute(cur.pid,
                        Fields(Chars(Get(cur.new, AnnotationExecuteAction))))]
         /\ log' = Append(log, Did("exec", "nsenter", ok))
         /\ nExec' = IF ok THEN nExec + 1 ELSE nExec
    /\ UNCHANGED <<target, stored, privPods, queue, nReq, nOther, call>>

\* executeNsenterCommand, second half: nsenter with the user's command.
executeNsenterCommand ==
    /\ pc = "active_exec"
    /\ \E ok \in BOOLEAN :
         /\ execCommandOnPod(cur.privPodName, ok)
         /\ LET lg == Append(log, Did("exec", "nsenter", ok))
                c1 == [cur EXCEPT !.command = commandToExecute(cur.pid,
                          Fields(Chars(Get(cur.new, AnnotationExecuteAction))))]
            IN  IF ok
                THEN pc' = "active_done" /\ cur' = c1 /\ log' = lg
                ELSE Finish("handleActiveStatus", Error("failed to execute command"), lg, c1)
         /\ nExec' = IF ok THEN nExec + 1 ELSE nExec
    /\ UNCHANGED <<target, stored, privPods, queue, nReq, nOther, call>>

\* An active-handler that deletes the privileged pod once done is written.
handleActiveStatus_Done_DeletesPod ==
    /\ pc = "active_done"
    /\ LET u  == updatePrivilegedCommandExecutorAnnotation(cur.new, StatusDone)
           c1 == [cur EXCEPT !.new = u.snapshot]
       IN  \E ok \in BOOLEAN :
             /\ patchPod(u.patch, ok)
             /\ Finish("handleActiveStatus",
                       IF ok THEN NoError ELSE Error("failed to update annotation"),
                       Append(log, Did("patch", StatusDone, ok)), c1)
    /\ privPods' = [n \in DOMAIN privPods \ {cur.privPodName} |-> privPods[n]]
    /\ UNCHANGED <<target, nReq, nExec, nOther, call>>

\* handleActiveStatus: status done is written.
handleActiveStatus_Done ==
    /\ pc = "active_done"
    /\ LET u  == updatePrivilegedCommandExecutorAnnotation(cur.new, StatusDone)
           c1 == [cur EXCEPT !.new = u.snapshot]
       IN  \E ok \in BOOLEAN :
             /\ patchPod(u.patch, ok)
             /\ Finish("handleActiveStatus",
                       IF ok THEN NoError ELSE Error("failed to update annotation"),
                       Append(log, Did("patch", StatusDone, ok)), c1)
    /\ UNCHANGED <<target, privPods, nReq, nExec, nOther, call>>

\* handleDoneStatus: after the sleep the privileged pod is deleted.
handleDoneStatus_DeletePod ==
    /\ pc = "done_delete"
    /\ \E ok \in BOOLEAN :
         /\ deletePod(cur.privPodName, ok)
         /\ LET lg == Append(log, Did("delete", "privileged pod", ok))
            IN  IF ok
                THEN pc' = "done_annotations" /\ cur' = cur /\ log' = lg
                ELSE Finish("handleDoneStatus", Error("failed to delete pod"), lg, cur)
    /\ UNCHANGED <<target, stored, queue, nReq, nExec, nOther, call>>

\* handleDoneStatus: the three protocol annotations are deleted.
handleDoneStatus_DeleteAnnotations ==
    /\ pc = "done_annotations"
    /\ LET d  == deletePrivilegedCommandExecutorAnnotation(cur.new)
           c1 == [cur EXCEPT !.new = d.snapshot]
       IN  IF d.err
           THEN /\ NoFault
                /\ failed' = TRUE
                /\ UNCHANGED <<stored, queue>>
                /\ Finish("handleDoneStatus", Error("annotation to be deleted does not exist"),
                          log, c1)
           ELSE \E ok \in BOOLEAN :
                  /\ patchPod(d.patch, ok)
                  /\ Finish("handleDoneStatus",
                            IF ok THEN NoError ELSE Error("failed to delete annotations"),
                            Append(log, Did("patch", "delete", ok)), c1)
    /\ UNCHANGED <<target, privPods, nReq, nExec, nOther, call>>

\* A cleanup that stops at a failed deletion: status error is not written.
handleUpdate_DeletePod_StopsOnFailure ==
    /\ pc = "error_delete"
    /\ \E ok \in BOOLEAN :
         /\ deletePod(cur.privPodName, ok)
         /\ log' = Append(log, Did("delete", "after error", ok))
         /\ pc' = IF ok THEN "error_write" ELSE "returned"
    /\ UNCHANGED <<target, stored, queue, cur, nReq, nExec, nOther, call>>

\* handleUpdate, err != nil: the privileged pod is deleted, a failure is logged.
handleUpdate_DeletePod ==
    /\ pc = "error_delete"
    /\ \E ok \in BOOLEAN :
         /\ deletePod(cur.privPodName, ok)
         /\ log' = Append(log, Did("delete", "after error", ok))
    /\ pc' = "error_write"
    /\ UNCHANGED <<target, stored, queue, cur, nReq, nExec, nOther, call>>

\* handleUpdate, err != nil: status error is written, a failure is logged.
\* The write puts the status key into the map the loop of handleUpdate ranges
\* over; when the done-handler had deleted the key, this is an entry created
\* during the iteration, which the range may produce again or skip: Process
\* may be called once more, on status error.
handleUpdate_WriteError ==
    /\ pc = "error_write"
    /\ LET u       == updatePrivilegedCommandExecutorAnnotation(cur.new, StatusError)
           created == cur.new[AnnotationExecuteStatus] = Absent
       IN  \E ok \in BOOLEAN, again \in BOOLEAN :
             /\ again => created
             /\ patchPod(u.patch, ok)
             /\ cur' = [cur EXCEPT !.new = u.snapshot]
             /\ log' = log \o << Did("patch", StatusError, ok) >> \o
                       (IF again THEN << Did("Process", "call", TRUE),
                                         Did("Process", "return", TRUE) >>
                        ELSE <<>>)
    /\ pc' = "returned"
    /\ UNCHANGED <<target, privPods, nReq, nExec, nOther, call>>

\* handleUpdate returns; the worker is free for the next event.
handleUpdate_Return ==
    /\ pc = "returned"
    /\ pc' = "idle"
    /\ cur' = NoRequest
    /\ log' = <<>>
    /\ UNCHANGED <<target, stored, privPods, queue, nReq, nExec, nOther, nFaults, failed, call>>

Controller ==
    \/ handleUpdate
    \/ handleActiveStatus_InProgress
    \/ createPrivilegedPod_Create
    \/ createPrivilegedPod_Watch
    \/ createPrivilegedPod_Wait
    \/ getPID
    \/ executeNsenterCommand
    \/ handleActiveStatus_Done
    \/ handleDoneStatus_DeletePod
    \/ handleDoneStatus_DeleteAnnotations
    \/ handleUpdate_DeletePod
    \/ handleUpdate_WriteError
    \/ handleUpdate_Return

Environment ==
    \/ ClientRequest
    \/ ClientAbandon
    \/ OtherActorWrite
    \/ KubeletSync

Next == Controller \/ Environment

Spec == Init /\ [][Next]_vars

\* The worker keeps taking events and finishing handlers, and the kubelet keeps
\* bringing privileged pods up; the client and other actors may stop any time.
FairSpec == Spec /\ WF_vars(Controller) /\ WF_vars(KubeletSync)

\* ------------------------------------------- a client that writes done
\* The annotations are ordinary pod annotations: whoever may patch the target
\* pod may write any status. A client annotates an idle pod, or one left with
\* status error, with the three keys and status done, as the test of the
\* done-handler does; such a write counts among the other actors' writes.
ClientWritesDone ==
    /\ \/ \A k \in ProtocolKeys : stored[k] = Absent
       \/ stored[AnnotationExecuteStatus] = StatusError
    /\ nOther < MaxOtherWrites
    /\ \E c \in ContainerNames :
          Store([stored EXCEPT ![AnnotationExecuteStatus] = StatusDone,
                               ![AnnotationExecuteContainer] = c,
                               ![AnnotationExecuteAction] = "gcore 1"])
    /\ nOther' = nOther + 1
    /\ UNCHANGED <<target, privPods, pc, cur, log, nReq, nExec, nFaults, failed, call>>

SpoofNext == Next \/ ClientWritesDone

SpoofSpec == Init /\ [][SpoofNext]_vars

\* ------------------------------------- a second target pod of the same name
\* The informer hands the updates of every pod of the cluster to the one
\* handler, one event at a time. A pod named like the target, in another
\* namespace and on another node, derives the same privileged pod name, for
\* the namespace is no part of the name, and the privileged pods of both are
\* created in CmdArgs.Namespace.
OtherNode == "otherNode"

\* The active-handler run for the other pod, between two events of this one:
\* it creates its privileged pod, runs the command and writes done; or, a pod
\* of that name being there, createPod fails and the cleanup of handleUpdate
\* deletes that pod.
OtherTargetActive ==
    /\ pc = "idle"
    /\ \E c \in ContainerNames :
         LET name == PrivPodName(TargetPodName, c)
         IN  privPods' =
               IF PodExists(name)
               THEN [n \in DOMAIN privPods \ {name} |-> privPods[n]]
               ELSE [n \in DOMAIN privPods \cup {name} |->
                       IF n = name
                       THEN [privilegedPodSpec(OtherNode) EXCEPT !.phase = "Running"]
                       ELSE privPods[n]]
    /\ UNCHANGED <<target, stored, queue, pc, cur, log, nReq, nExec, nOther, nFaults, failed, call>>

\* The done-handler run for the other pod: its privileged pod is deleted.
OtherTargetDone ==
    /\ pc = "idle"
    /\ \E n \in DOMAIN privPods :
         /\ privPods[n].nodeName = OtherNode
         /\ privPods' = [m \in DOMAIN privPods \ {n} |-> privPods[m]]
    /\ UNCHANGED <<target, stored, queue, pc, cur, log, nReq, nExec, nOther, nFaults, failed, call>>

CrossNext == Next \/ OtherTargetActive \/ OtherTargetDone

CrossSpec == Init /\ [][CrossNext]_vars

\* ------------------------------------ an API server that stores and deletes
\* A step in which no call fails that the API server can serve: no Patch of
\* the target pod fails, and no Delete of a privileged pod that exists.
\* Creating, watching and the remote commands may fail as before.
ReliableStep ==
    \A i \in DOMAIN log' :
       (i > Len(log) /\ ~log'[i].ok) =>
          /\ log'[i].op # "patch"
          /\ log'[i].op = "delete" => ~PodExists(cur.privPodName)

ReliableNext == Next /\ ReliableStep

ReliableSpec == Init /\ [][ReliableNext]_vars

\* ------------------------------------------------- the helpers called alone
\* applyAnnotationDeletionOnPod and applyAnnotationUpdateOnPod called as the
\* unit tests call them: on the pod the API server stores, with any list of
\* keys to delete or any map of pairs to upsert.
HelperMaps == [Keys -> {Absent, "", "value"}]
HelperPairs == [Keys -> {Absent, "new-value", "newer-value"}]
HelperKeyLists == UNION {[1..n -> Keys] : n \in 0..MaxKeys}

HelperInit ==
    /\ target \in {t \in TargetShapes : t.nodeName # "" /\ Len(t.containerStatuses) = 3}
    /\ stored \in HelperMaps
    /\ privPods = NoPods
    /\ queue = <<>>
    /\ pc = "idle"
    /\ cur = NoRequest
    /\ log = <<>>
    /\ nReq = 0
    /\ nExec = 0
    /\ nOther = 0
    /\ nFaults = 0
    /\ failed = FALSE
    /\ \/ \E ks \in HelperKeyLists :
            call = [NoCall EXCEPT !.phase = "ready", !.op = "delete", !.keys = ks,
                                  !.snapshot = stored, !.before = stored]
       \/ \E ps \in HelperPairs :
            call = [NoCall EXCEPT !.phase = "ready", !.op = "update", !.pairs = ps,
                                  !.snapshot = stored, !.before = stored]

\* applyAnnotationDeletionOnPod(client, ns, keys, pod): the loop, then the patch.
HelperDeletion ==
    /\ call.phase = "ready"
    /\ call.op = "delete"
    /\ LET d == applyAnnotationDeletionOnPod(call.snapshot, call.keys)
       IN  IF d.err
           THEN /\ call' = [call EXCEPT !.phase = "returned", !.snapshot = d.snapshot,
                                        !.err = TRUE]
                /\ UNCHANGED <<stored, queue, nFaults, failed>>
           ELSE \E ok \in BOOLEAN :
                  /\ patchPod(d.patch, ok)
                  /\ call' = [call EXCEPT !.phase = "returned", !.snapshot = d.snapshot,
                                          !.err = ~ok, !.patched = ok]
    /\ UNCHANGED <<target, privPods, pc, cur, log, nReq, nExec, nOther>>

\* applyAnnotationUpdateOnPod(client, ns, pairs, pod): the writes, then the patch.
HelperUpdate ==
    /\ call.phase = "ready"
    /\ call.op = "update"
    /\ LET u == applyAnnotationUpdateOnPod(call.snapshot, call.pairs)
       IN  \E ok \in BOOLEAN :
             /\ patchPod(u.patch, ok)
             /\ call' = [call EXCEPT !.phase = "returned", !.snapshot = u.snapshot,
                                     !.err = ~ok, !.patched = ok]
    /\ UNCHANGED <<target, privPods, pc, cur, log, nReq, nExec, nOther>>

\* The unit test upserts a second time on the same pod object, one key, after
\* the first upsert has succeeded.
HelperSecondPairs == {ps \in HelperPairs : Cardinality(Present(ps)) = 1}

HelperAgain ==
    /\ call.phase = "returned"
    /\ call.op = "update"
    /\ call.patched
    /\ ~call.again
    /\ \E ps \in HelperSecondPairs :
          call' = [NoCall EXCEPT !.phase = "ready", !.op = "update", !.pairs = ps,
                                 !.snapshot = call.snapshot, !.before = stored,
                                 !.again = TRUE]
    /\ UNCHANGED <<target, stored, privPods, queue, pc, cur, log, nReq, nExec, nOther, nFaults, failed>>

HelperNext == HelperDeletion \/ HelperUpdate \/ HelperAgain

HelperSpec == HelperInit /\ [][HelperNext]_vars

\* --------------------------------------------- the remote command alone
\* The last step of handleActiveStatus alone: the action annotation is split
\* into fields and executeNsenterCommand is called with them, for any action
\* text and anything docker inspect may print.
ActionChars == {"g", "1", " ", "\t"}
ActionTexts == UNION {[1..n -> ActionChars] : n \in 0..MaxActionLen}
InspectOutputs ==
    { <<>>, <<"'">>, <<"'", "\n">>, <<"'", "'", "\n">>, <<"7", "\n">>,
      InspectOutput, <<"'", "4", "2", "'", "\n">> }

CommandInit ==
    /\ target \in {t \in TargetShapes : t.nodeName # "" /\ Len(t.containerStatuses) = 3}
    /\ stored = NoAnnotations
    /\ privPods = NoPods
    /\ queue = <<>>
    /\ pc = "idle"
    /\ cur = NoRequest
    /\ log = <<>>
    /\ nReq = 0
    /\ nExec = 0
    /\ nOther = 0
    /\ nFaults = 0
    /\ failed = FALSE
    /\ \E a \in ActionTexts, o \in InspectOutputs :
          call = [NoCall EXCEPT !.phase = "ready", !.op = "exec", !.action = a,
                                !.output = o]

\* getPID: docker inspect runs in the privileged pod or fails; its output is
\* cut to the PID, or the cut panics.
CommandGetPID ==
    /\ call.phase = "ready"
    /\ call.op = "exec"
    /\ \E ok \in BOOLEAN :
          LET t == TrimPID(call.output)
          IN  call' = IF ~ok THEN [call EXCEPT !.phase = "returned", !.err = TRUE]
                      ELSE IF t.panic THEN [call EXCEPT !.phase = "crashed"]
                      ELSE [call EXCEPT !.phase = "pid", !.pid = t.pid]
    /\ UNCHANGED <<target, stored, privPods, queue, pc, cur, log, nReq, nExec, nOther, nFaults, failed>>

\* executeNsenterCommand after getPID: the command is put together and sent.
CommandNsenter ==
    /\ call.phase = "pid"
    /\ \E ok \in BOOLEAN :
          call' = [call EXCEPT !.phase = "returned", !.err = ~ok,
                               !.command = commandToExecute(call.pid, Fields(call.action))]
    /\ UNCHANGED <<target, stored, privPods, queue, pc, cur, log, nReq, nExec, nOther, nFaults, failed>>

CommandNext == CommandGetPID \/ CommandNsenter

CommandSpec == CommandInit /\ [][CommandNext]_vars

\* ------------------------------------------------ createPrivilegedPod alone
\* createPrivilegedPod called as the unit test calls it, with the clock of the
\* wait and the result channel of the watch: call.events are the events not
\* yet received, call.received the phases the received ones reported,
\* call.elapsed the seconds since the wait began and call.timer the seconds
\* since the select was last entered (time.After is called in the loop).
ProvisionName == PrivPodName(TargetPodName, "c_A")

ProvisionInit ==
    /\ target \in {t \in TargetShapes : t.nodeName # "" /\ Len(t.containerStatuses) = 3}
    /\ stored = NoAnnotations
    /\ privPods \in {NoPods, [n \in {ProvisionName} |-> privilegedPodSpec(target.nodeName)]}
    /\ queue = <<>>
    /\ pc = "idle"
    /\ cur = NoRequest
    /\ log = <<>>
    /\ nReq = 0
    /\ nExec = 0
    /\ nOther = 0
    /\ nFaults = 0
    /\ failed = FALSE
    /\ call = [NoCall EXCEPT !.phase = "ready", !.op = "createPrivilegedPod"]

\* createPod; its error is returned at once.
ProvisionCreate ==
    /\ call.op = "createPrivilegedPod"
    /\ call.phase = "ready"
    /\ \E ok \in BOOLEAN :
          /\ createPod(ProvisionName, target.nodeName, ok)
          /\ call' = IF ok THEN [call EXCEPT !.phase = "created"]
                     ELSE [call EXCEPT !.phase = "returned", !.err = TRUE,
                                       !.error = Error("failed to create pod")]
    /\ UNCHANGED <<target, stored, queue, pc, cur, log, nReq, nExec, nOther>>

\* Pods(ns).Watch with the field selector on the name: the channel opens with
\* the pod as it is, or Watch fails and the error is returned.
ProvisionWatch ==
    /\ call.op = "createPrivilegedPod"
    /\ call.phase = "created"
    /\ \/ /\ NoFault
          /\ failed' = failed
          /\ call' = [call EXCEPT !.phase = "waiting", !.watch = "open",
                                  !.events = IF PodExists(ProvisionName)
                                             THEN <<privPods[ProvisionName].phase>>
                                             ELSE <<>>]
       \/ /\ Faulty
          /\ Fault
          /\ failed' = TRUE
          /\ call' = [call EXCEPT !.phase = "returned", !.err = TRUE,
                         !.error = Error("error starting watcher for privilege pod")]
    /\ UNCHANGED <<target, stored, privPods, queue, pc, cur, log, nReq, nExec, nOther>>

\* What the receive yields when the watch ends or breaks: an event whose
\* Object is no *v1.Pod, which is the zero event of a closed channel (Object
\* nil) or an error event (Object a *metav1.Status).
NoPodObject == "<no pod>"

\* A wait that takes the first event for the news that the pod runs.
ProvisionReceive_AnyPhase ==
    /\ call.op = "createPrivilegedPod"
    /\ call.phase = "waiting"
    /\ call.events # <<>>
    /\ call' = [call EXCEPT !.events = Tail(call.events),
                            !.received = Append(call.received, Head(call.events)),
                            !.phase = "returned", !.watch = "stopped"]
    /\ UNCHANGED <<target, stored, privPods, queue, pc, cur, log, nReq, nExec, nOther, nFaults, failed>>

\* case event := <-watch.ResultChan(): phase Running returns nil; any other
\* phase goes round the loop, into a select with a new timer. p is nil when
\* the event's object is no pod, and p.Status.Phase then panics.
ProvisionReceive ==
    /\ call.op = "createPrivilegedPod"
    /\ call.phase = "waiting"
    /\ call.events # <<>>
    /\ LET phase == Head(call.events)
           c     == [call EXCEPT !.events = Tail(call.events),
                                 !.received = Append(call.received, phase)]
       IN  call' = IF phase = NoPodObject
                   THEN [c EXCEPT !.phase = "crashed"]
                   ELSE IF phase = "Running"
                   THEN [c EXCEPT !.phase = "returned", !.watch = "stopped"]
                   ELSE [c EXCEPT !.timer = 0]
    /\ UNCHANGED <<target, stored, privPods, queue, pc, cur, log, nReq, nExec, nOther, nFaults, failed>>

\* A timeout that returns from inside the loop, past watch.Stop().
ProvisionTimeout_LeavesWatch ==
    /\ call.op = "createPrivilegedPod"
    /\ call.phase = "waiting"
    /\ call.timer = PrivPodTimeout
    /\ call' = [call EXCEPT !.phase = "returned", !.err = TRUE,
                            !.reads = call.reads + 1,
                            !.error = PodNotRunning(privPods, ProvisionName)]
    /\ UNCHANGED <<target, stored, privPods, queue, pc, cur, log, nReq, nExec, nOther, nFaults, failed>>

\* case <-time.After(PrivPodTimeout seconds): the pod is read and the error
\* with its name and phase is returned.
ProvisionTimeout ==
    /\ call.op = "createPrivilegedPod"
    /\ call.phase = "waiting"
    /\ call.timer = PrivPodTimeout
    /\ call' = [call EXCEPT !.phase = "returned", !.watch = "stopped", !.err = TRUE,
                            !.reads = call.reads + 1,
                            !.error = PodNotRunning(privPods, ProvisionName)]
    /\ UNCHANGED <<target, stored, privPods, queue, pc, cur, log, nReq, nExec, nOther, nFaults, failed>>

\* A second passes while the select waits: no event is there to be received
\* and the timer has not fired.
ProvisionTick ==
    /\ call.op = "createPrivilegedPod"
    /\ call.phase = "waiting"
    /\ call.events = <<>>
    /\ call.timer < PrivPodTimeout
    /\ call.elapsed < MaxClock
    /\ call' = [call EXCEPT !.elapsed = call.elapsed + 1, !.timer = call.timer + 1]
    /\ UNCHANGED <<target, stored, privPods, queue, pc, cur, log, nReq, nExec, nOther, nFaults, failed>>

\* The kubelet updates the status of the privileged pod: the phase advances
\* or stays (conditions, container states); an open watch gets the event.
ProvisionKubelet ==
    /\ call.op = "createPrivilegedPod"
    /\ call.phase \in {"created", "waiting"}
    /\ call.updates < MaxStatusUpdates
    /\ PodExists(ProvisionName)
    /\ \E phase \in {"Pending", "Running"} :
          /\ privPods[ProvisionName].phase = "Running" => phase = "Running"
          /\ privPods' = [privPods EXCEPT ![ProvisionName].phase = phase]
          /\ call' = [call EXCEPT !.updates = call.updates + 1,
                                  !.events = IF call.watch = "open"
                                             THEN Append(call.events, phase)
                                             ELSE call.events]
    /\ UNCHANGED <<target, stored, queue, pc, cur, log, nReq, nExec, nOther, nFaults, failed>>

\* The API server ends the watch (the channel is closed) or reports an error
\* on it while createPrivilegedPod waits.
ProvisionWatchBreaks ==
    /\ call.op = "createPrivilegedPod"
    /\ call.phase = "waiting"
    /\ call.watch = "open"
    /\ Faulty
    /\ Fault
    /\ call' = [call EXCEPT !.events = Append(call.events, NoPodObject)]
    /\ UNCHANGED <<target, stored, privPods, queue, pc, cur, log, nReq, nExec, nOther, failed>>

ProvisionNext ==
    \/ ProvisionCreate
    \/ ProvisionWatch
    \/ ProvisionReceive
    \/ ProvisionTimeout
    \/ ProvisionTick
    \/ ProvisionKubelet
    \/ ProvisionWatchBreaks

ProvisionSpec == ProvisionInit /\ [][ProvisionNext]_vars

\* ------------------------------------------- the target's resolution alone
\* The container ID and node name detection of handleActiveStatus alone, on
\* any target pod: each container of the pod has its status entry among the
\* regular or the init container statuses or not yet at all, with a
\* ContainerID that is docker://id, not yet populated, or cut short.
ShortID == <<"d", "o", "c", "k", "e", "r", ":", "/">>
ContainerIDs == {DockerID, NoID, ShortID}
StatusEntries == [Name : ContainerNames, ContainerID : ContainerIDs]
StatusLists ==
    { l \in UNION {[1..n -> StatusEntries] : n \in 0..Cardinality(ContainerNames)} :
         \A i, j \in DOMAIN l : i # j => l[i].Name # l[j].Name }
StatusNames(l) == {l[i].Name : i \in DOMAIN l}
ResolvePods ==
    { p \in [nodeName : {"targetNode", ""}, containerStatuses : StatusLists,
             initContainerStatuses : StatusLists] :
         StatusNames(p.containerStatuses) \cap StatusNames(p.initContainerStatuses) = {} }

ResolveInit ==
    /\ target \in ResolvePods
    /\ stored = NoAnnotations
    /\ privPods = NoPods
    /\ queue = <<>>
    /\ pc = "idle"
    /\ cur = NoRequest
    /\ log = <<>>
    /\ nReq = 0
    /\ nExec = 0
    /\ nOther = 0
    /\ nFaults = 0
    /\ failed = FALSE
    /\ \E c \in ContainerNames :
          call = [NoCall EXCEPT !.phase = "ready", !.op = "resolve", !.name = c]

\* The scan for the container ID: the slice panics, or nothing is found and
\* the handler returns its error, or the ID is found.
ResolveScan ==
    /\ call.phase = "ready"
    /\ call.op = "resolve"
    /\ LET cid == ResolveContainerID(target, call.name)
       IN  call' = IF cid.panic THEN [call EXCEPT !.phase = "crashed"]
                   ELSE IF cid.id = <<>>
                   THEN [call EXCEPT !.phase = "returned",
                                     !.error = Error("no matching container ID")]
                   ELSE [call EXCEPT !.phase = "found", !.id = cid.id]
    /\ UNCHANGED <<target, stored, privPods, queue, pc, cur, log, nReq, nExec, nOther, nFaults, failed>>

\* getNodeName after the scan.
ResolveNode ==
    /\ call.phase = "found"
    /\ LET node == getNodeName(target)
       IN  call' = IF node.err
                   THEN [call EXCEPT !.phase = "returned",
                                     !.error = Error("failed to detect target node")]
                   ELSE [call EXCEPT !.phase = "resolved", !.nodeName = node.nodeName]
    /\ UNCHANGED <<target, stored, privPods, queue, pc, cur, log, nReq, nExec, nOther, nFaults, failed>>

ResolveNext == ResolveScan \/ ResolveNode

ResolveSpec == ResolveInit /\ [][ResolveNext]_vars

\* ------------------------------------------------- the derived name alone
\* The name derivation of handleUpdate alone, on any pod name and container
\* name of up to MaxNameLen characters (Kubernetes would not accept every one
\* of them as a name; the derivation does), and on the names of the tests.
NameChars == {"a", "A", "_", "-"}
NameTexts == UNION {[1..n -> NameChars] : n \in 1..MaxNameLen}
TestPodChars == <<"t", "e", "s", "t", "-", "p", "o", "d">>
TargetContainerChars ==
    <<"t", "a", "r", "g", "e", "t", "-", "c", "o", "n", "t", "a", "i", "n", "e", "r">>

NameInit ==
    /\ target \in {t \in TargetShapes : t.nodeName # "" /\ Len(t.containerStatuses) = 3}
    /\ stored = NoAnnotations
    /\ privPods = NoPods
    /\ queue = <<>>
    /\ pc = "idle"
    /\ cur = NoRequest
    /\ log = <<>>
    /\ nReq = 0
    /\ nExec = 0
    /\ nOther = 0
    /\ nFaults = 0
    /\ failed = FALSE
    /\ \E p \in NameTexts \cup {TestPodChars}, c \in NameTexts \cup {TargetContainerChars} :
          call = [NoCall EXCEPT !.phase = "ready", !.op = "name",
                                !.podChars = p, !.containerChars = c]

\* handleUpdate constructs the privileged pod name.
NameDerive ==
    /\ call.phase = "ready"
    /\ call.op = "name"
    /\ call' = [call EXCEPT !.phase = "derived",
                            !.privPodName = DerivePrivPodName(call.podChars,
                                                              call.containerChars)]
    /\ UNCHANGED <<target, stored, privPods, queue, pc, cur, log, nReq, nExec, nOther, nFaults, failed>>

NameNext == NameDerive

NameSpec == NameInit /\ [][NameNext]_vars

\* ------------------------------------------------------------------- claims
\* The three protocol keys are in the map with non-empty values.
AllThreePresent(m) == \A k \in ProtocolKeys : m[k] # Absent /\ m[k] # ""
StatusOf(m) == m[AnnotationExecuteStatus]
Entries(op, arg) == {i \in DOMAIN log : log[i].op = op /\ log[i].arg = arg}

\* C1: handleUpdate calls Process exactly once for an update whose new object
\* carries the three protocol keys with non-empty values, and for any other
\* update it calls nothing, writes no annotation and creates or deletes no pod.
C1_ProcessOncePerQualifyingUpdate ==
    /\ [](pc = "returned" /\ AllThreePresent(cur.event)
            => Cardinality(Entries("Process", "call")) = 1)
    /\ [][pc = "idle" /\ pc' = "returned" /\ ~AllThreePresent(Head(queue).new)
            => log' = <<>> /\ stored' = stored /\ privPods' = privPods]_vars

\* What holds when handleActiveStatus returns on the timeout of the wait: the
\* three effects in order, the error naming the pod and its phase, the pod on
\* the node, status in-progress stored, no done write.
C2_AtReturn ==
    LET name == PrivPodName(TargetPodName, cur.event[AnnotationExecuteContainer])
    IN  /\ \E i, j, k \in DOMAIN log :
              /\ i < j /\ j < k
              /\ log[i] = Did("patch", StatusInProgress, TRUE)
              /\ log[j] = Did("create", target.nodeName, TRUE)
              /\ log[k] = Did("handleActiveStatus", "return", FALSE)
        /\ cur.err.pod = name
        /\ PodExists(name)
        /\ cur.err.phase = privPods[name].phase
        /\ privPods[name].nodeName = target.nodeName
        /\ target.nodeName # ""
        /\ stored[AnnotationExecuteStatus] = StatusInProgress
        /\ Entries("patch", StatusDone) = {}

\* C2: when handleActiveStatus returns because the privileged pod was not
\* Running at the timeout, it has written status in-progress, then created the
\* privileged pod with the derived name on the target pod's node, then returned
\* an error naming that pod and the phase it read; the pod is still there on
\* that node, the stored status is in-progress and no done write was made.
C2_ActiveTimeoutOrder ==
    /\ [][pc = "active_watch" /\ pc' = "error_delete" => C2_AtReturn']_vars
    /\ []((pc = "error_delete" /\ cur.err.kind = "privileged pod is not running") =>
            /\ PodExists(cur.err.pod)
            /\ privPods[cur.err.pod].nodeName = target.nodeName
            /\ stored[AnnotationExecuteStatus] = StatusInProgress)

C2_Witness ==
    /\ pc = "error_delete"
    /\ cur.err.kind = "privileged pod is not running"
    /\ cur.err.phase # "Running"

\* C4: Process calls the active-handler exactly when the status of the new
\* object is active and the done-handler exactly when it is done; on any other
\* status it returns nil and nothing else happens; it returns an error exactly
\* when the handler it called returned one, wrapped with the transition, and
\* handleUpdate then sees that error.
C4_ProcessDispatch ==
    /\ \A i \in Entries("Process", "call") :
          /\ i < Len(log)
          /\ LET st == IF i = 1 THEN Get(cur.event, AnnotationExecuteStatus)
                       ELSE Get(cur.new, AnnotationExecuteStatus)
             IN  IF st = StatusActive /\ i = 1
                 THEN log[i + 1] = Did("handleActiveStatus", "call", TRUE)
                 ELSE IF st = StatusDone /\ i = 1
                 THEN log[i + 1] = Did("handleDoneStatus", "call", TRUE)
                 ELSE /\ log[i + 1] = Did("Process", "return", TRUE)
                      /\ st \notin {StatusActive, StatusDone}
                      /\ i = 1 => (Len(log) = 2 /\ pc = "returned" /\ cur.err = NoError)
    /\ \A i \in DOMAIN log :
          (log[i].op \in {"handleActiveStatus", "handleDoneStatus"} /\ log[i].arg = "call")
              => (i = 2 /\ log[1] = Did("Process", "call", TRUE))
    /\ \A j \in Entries("Process", "return") :
          /\ j > 1
          /\ \/ log[j - 1] = Did("Process", "call", TRUE) /\ log[j].ok
             \/ /\ log[j - 1].op = log[2].op
                /\ log[j - 1].arg = "return"
                /\ log[j - 1].ok = log[j].ok
    /\ \A j \in DOMAIN log :
          (log[j].op \in {"handleActiveStatus", "handleDoneStatus"}
             /\ log[j].arg = "return" /\ ~log[j].ok)
              => /\ j < Len(log)
                 /\ log[j + 1] = Did("Process", "return", FALSE)
                 /\ cur.err # NoError
                 /\ cur.err.wrap = Get(cur.event, AnnotationExecuteStatus)
                 /\ pc \in {"error_delete", "error_write", "returned"}

C4_Witness ==
    /\ pc = "error_delete"
    /\ cur.err.wrap = StatusDone
    /\ log[Len(log)] = Did("Process", "return", FALSE)

\* C5: after Process returned an error, handleUpdate tries to delete the
\* privileged pod and then tries to write status error, in that order, the
\* write also after a failed deletion; neither step can block or stop the
\* handler, which returns; a successful error write leaves status error stored.
C5_ErrorCleanup ==
    /\ [](\A j \in Entries("Process", "return") :
            ~log[j].ok =>
               \/ pc = "error_delete" /\ Len(log) = j
               \/ /\ Len(log) > j
                  /\ log[j + 1].op = "delete"
                  /\ log[j + 1].arg = "after error"
                  /\ \/ pc = "error_write" /\ Len(log) = j + 1
                     \/ /\ Len(log) > j + 1
                        /\ log[j + 2].op = "patch"
                        /\ log[j + 2].arg = StatusError
                        /\ pc = "returned")
    /\ [](pc = "error_delete" => ENABLED handleUpdate_DeletePod)
    /\ [](pc = "error_write" => ENABLED handleUpdate_WriteError)
    /\ [][pc = "error_write" /\ pc' = "returned" /\ log'[Len(log) + 1].ok
            => stored'[AnnotationExecuteStatus] = StatusError]_vars

C5_Witness ==
    /\ pc = "returned"
    /\ \E i \in DOMAIN log :
          /\ i < Len(log)
          /\ log[i] = Did("delete", "after error", FALSE)
          /\ log[i + 1] = Did("patch", StatusError, TRUE)
    /\ stored[AnnotationExecuteStatus] = StatusError

\* C3: when Process, called on status done, returns (the API server having
\* failed none of its calls), it has deleted the privileged pod of the request
\* and after that removed the three protocol annotations from the stored pod;
\* the pod is gone, no protocol key is stored, and every other stored
\* annotation has the value it had.
C3_DoneCleansUp ==
    [][/\ pc \in {"done_delete", "done_annotations"}
       /\ pc' \in {"returned", "error_delete"}
       /\ nFaults' = nFaults
       => /\ \E i, j \in DOMAIN log' :
                /\ i < j
                /\ log'[i] = Did("delete", "privileged pod", TRUE)
                /\ log'[j] = Did("patch", "delete", TRUE)
          /\ cur.privPodName \notin DOMAIN privPods'
          /\ \A k \in ProtocolKeys : stored'[k] = Absent
          /\ \A k \in Keys \ ProtocolKeys : stored'[k] = stored[k]]_vars

\* A step of the controller, as opposed to one of the client, another actor or
\* the kubelet: the worker moves or its log grows.
ControllerStep == pc' # pc \/ log' # log

\* The changes of the stored status the lifecycle allows the controller:
\* active -> in-progress -> done -> idle, and error from active, in-progress, done.
LifecycleStep(from, to) ==
    \/ from = StatusActive /\ to = StatusInProgress
    \/ from = StatusInProgress /\ to = StatusDone
    \/ from = StatusDone /\ to = Absent
    \/ from \in {StatusActive, StatusInProgress, StatusDone} /\ to = StatusError

\* C6: every change the controller makes to the stored status annotation is a
\* step of the lifecycle; no write of the controller moves it from done or from
\* error back to in-progress.
C6_StatusFollowsLifecycle ==
    [][ControllerStep /\ StatusOf(stored') # StatusOf(stored)
          => LifecycleStep(StatusOf(stored), StatusOf(stored'))]_vars

\* C7: while the status the controller wrote is error (no external actor has
\* written active again), the controller creates no privileged pod, runs no
\* command and writes no annotation.
C7_NoActionAfterError ==
    [][ControllerStep /\ StatusOf(stored) = StatusError
          => /\ stored' = stored
             /\ DOMAIN privPods' \subseteq DOMAIN privPods
             /\ Entries("exec", "docker inspect")' = Entries("exec", "docker inspect")
             /\ Entries("exec", "nsenter")' = Entries("exec", "nsenter")]_vars

\* C9: a write of the controller changes no annotation of the target pod other
\* than the three protocol keys.
C9_OnlyProtocolKeysWritten ==
    [][ControllerStep => \A k \in Keys \ ProtocolKeys : stored'[k] = stored[k]]_vars

\* The request the client has stored can be served: the named container has a
\* status entry with an identifier behind the docker:// prefix and the pod has
\* a node.
Servable ==
    /\ AllThreePresent(stored)
    /\ StatusOf(stored) = StatusActive
    /\ target.nodeName # ""
    /\ \E i \in DOMAIN target.containerStatuses :
          /\ target.containerStatuses[i].Name = stored[AnnotationExecuteContainer]
          /\ Len(target.containerStatuses[i].ContainerID) > SchemePrefixLen

CleanedUp ==
    /\ \A k \in ProtocolKeys : stored[k] = Absent
    /\ DOMAIN privPods = {}

\* The API server, the kubelet or a remote command has let the controller
\* down: a patch, create, delete or exec that could have succeeded failed, or
\* the privileged pod was not Running at the timeout.
EnvironmentFailed == nFaults > 0

\* C8: once the client has stored a servable request with status active, and
\* the privileged pod gets Running in time, the remote commands succeed and
\* the API server fails no call, the three protocol annotations are eventually
\* gone from the target pod and no privileged pod exists, whatever updates of
\* the pod are delivered, those that leave the protocol annotations included.
C8_EventuallyCleanedUp == Servable ~> (CleanedUp \/ EnvironmentFailed)

\* What does hold: the request is cleaned up unless some call of the controller
\* returns an error, including the errors the controller brings upon itself by
\* creating a pod that exists or deleting one that is gone.
CleanedUpUnlessCallFails == Servable ~> (CleanedUp \/ failed)

\* C10: applyAnnotationDeletionOnPod called with a list of keys of which one
\* is not on the pod returns the missing-annotation error, submits no patch,
\* and leaves every annotation that was there as it was, on the stored pod and
\* on the pod object passed to it, wherever the missing key is in the list.
C10_DeletionAllOrNothing ==
    (/\ call.phase = "returned"
     /\ call.op = "delete"
     /\ \E i \in DOMAIN call.keys : call.before[call.keys[i]] = Absent)
        => /\ call.err
           /\ ~call.patched
           /\ stored = call.before
           /\ \A k \in Keys : call.before[k] # Absent => call.snapshot[k] = call.before[k]

\* The map with the pairs written over it.
Overridden(m, pairs) == [k \in Keys |-> IF pairs[k] # Absent THEN pairs[k] ELSE m[k]]

\* C11: after applyAnnotationUpdateOnPod has succeeded, the annotations of the
\* pod, stored and in the object passed, are the annotations it had before
\* with the pairs written over them: a key of the pairs has the new value,
\* every other key has the value it had, and no other key has appeared; a
\* second upsert of a key changes the value of that key alone.
C11_UpsertRoundTrip ==
    (call.phase = "returned" /\ call.op = "update" /\ call.patched)
        => /\ stored = Overridden(call.before, call.pairs)
           /\ call.snapshot = stored

C11_Witness ==
    /\ call.phase = "returned"
    /\ call.op = "update"
    /\ call.patched
    /\ call.again
    /\ call.before[AnnotationExecuteStatus] = "new-value"
    /\ call.pairs = [NoAnnotations EXCEPT ![AnnotationExecuteStatus] = "newer-value"]
    /\ stored[AnnotationExecuteStatus] = "newer-value"
    /\ stored[OtherAnnotation] = "value"
    /\ stored[AnnotationExecuteContainer] = "new-value"

\* The characters of the tokens, one token after the other.
RECURSIVE Joined(_)
Joined(tokens) == IF tokens = <<>> THEN <<>> ELSE Head(tokens) \o Joined(Tail(tokens))

\* The places of the text where a field begins.
FieldStarts(chars) ==
    {i \in DOMAIN chars : ~IsSpace(chars[i]) /\ (i = 1 \/ IsSpace(chars[i - 1]))}

C13_ProvisionOutcome ==
    (call.op = "createPrivilegedPod" /\ call.phase = "returned")
        => /\ ~call.err =>
                /\ call.received # <<>>
                /\ call.received[Len(call.received)] = "Running"
                /\ call.reads = 0
           /\ call.err =>
                call.error.kind \in {"failed to create pod", "privileged pod is not running",
                                     "error starting watcher for privilege pod"}
           /\ call.error.kind = "privileged pod is not running" =>
                /\ call.timer = PrivPodTimeout
                /\ call.reads = 1
                /\ \A i \in DOMAIN call.received : call.received[i] # "Running"
                /\ call.error.pod = ProvisionName
                /\ call.error.seconds = PrivPodTimeout
                /\ call.error.phase = privPods[ProvisionName].phase
           /\ call.error.kind = "failed to create pod" =>
                /\ call.watch = "none"
                /\ call.elapsed = 0
                /\ call.received = <<>>
                /\ call.reads = 0

C13_Witness ==
    /\ call.op = "createPrivilegedPod"
    /\ call.phase = "returned"
    /\ call.error.kind = "privileged pod is not running"
    /\ call.error.phase = "Pending"
    /\ call.received # <<>>

\* C14: the wait of createPrivilegedPod lasts no longer than PrivPodTimeout
\* seconds, whatever events the watch delivers, events that report a phase
\* other than Running less than PrivPodTimeout seconds apart included.
C14_WaitBounded ==
    call.op = "createPrivilegedPod" => call.elapsed <= PrivPodTimeout

\* C15: a watch that createPrivilegedPod has opened is stopped when
\* createPrivilegedPod returns, after phase Running as after the timeout; the
\* watch is open only while the call waits, or where the wait has panicked and
\* returns no more.
C15_WatchStopped ==
    call.op = "createPrivilegedPod"
        => /\ call.phase = "returned" => call.watch \in {"none", "stopped"}
           /\ call.watch = "open" => (call.phase = "waiting" \/ call.phase = "crashed")
           /\ (call.phase = "returned" /\ (call.received # <<>> \/ call.reads > 0))
                 => call.watch = "stopped"

C15_Witness ==
    /\ call.op = "createPrivilegedPod"
    /\ call.phase = "returned"
    /\ ~call.err
    /\ call.received # <<>>
    /\ call.watch = "stopped"

\* C16: deletePod of a pod that does not exist returns an error; when the
\* privileged pod is absent, or its deletion fails otherwise, handleDoneStatus
\* returns that error and has deleted none of the protocol annotations: the
\* stored annotations are as they were and no deletion patch is sent in that
\* run of handleUpdate.
C16_DeleteFailureAborts ==
    /\ [][pc = "done_delete" /\ pc' # pc =>
            LET del == log'[Len(log) + 1]
            IN  /\ del.op = "delete"
                /\ ~PodExists(cur.privPodName) => ~del.ok
                /\ ~del.ok =>
                      /\ pc' = "error_delete"
                      /\ cur'.err.kind = "failed to delete pod"
                      /\ cur'.err.wrap = StatusDone
                      /\ stored' = stored
                      /\ privPods' = privPods]_vars
    /\ []((\E i \in Entries("delete", "privileged pod") : ~log[i].ok)
            => Entries("patch", "delete") = {})

C16_Witness ==
    /\ pc = "error_delete"
    /\ cur.err.kind = "failed to delete pod"
    /\ ~PodExists(cur.privPodName)
    /\ nFaults = 0
    /\ AllThreePresent(stored)

\* The run of handleUpdate that is in progress or has just returned handled
\* status active, and its active-handler returned nil or an error.
ActiveHandled(ok) ==
    \E i \in DOMAIN log : log[i] = Did("handleActiveStatus", "return", ok)

\* C17 as stated: when handleUpdate has returned from an event with status
\* active, the privileged pod of the request does not exist, whether the
\* active-handler succeeded or failed, and the deletion at done-handler time
\* succeeds also when the pod is gone already.
C17_PodDeletedAfterActive ==
    /\ []((pc = "returned" /\ (ActiveHandled(TRUE) \/ ActiveHandled(FALSE)))
            => ~PodExists(cur.privPodName))
    /\ [][pc = "done_delete" /\ pc' # pc => pc' = "done_annotations"]_vars

\* C17 amended: the privileged pod is deleted on the failure path only. When
\* handleUpdate has returned after its active-handler succeeded, the pod it
\* created exists; after the active-handler failed the pod is gone if the
\* deletion of the cleanup succeeded; the done-handler deletes the pod, and
\* that deletion fails when the pod is not there.
C17_PodKeptUntilDone ==
    /\ []((pc = "returned" /\ ActiveHandled(TRUE))
            => /\ PodExists(cur.privPodName)
               /\ Entries("delete", "after error") = {}
               /\ Entries("delete", "privileged pod") = {})
    /\ []((pc = "returned" /\ ActiveHandled(FALSE)
              /\ \E i \in Entries("delete", "after error") : log[i].ok)
            => ~PodExists(cur.privPodName))
    /\ [][pc = "done_delete" /\ pc' # pc =>
            IF PodExists(cur.privPodName) /\ pc' = "done_annotations"
            THEN ~PodExists(cur.privPodName)'
            ELSE pc' = "error_delete" /\ privPods' = privPods]_vars

C17_Witness ==
    /\ pc = "returned"
    /\ ActiveHandled(TRUE)
    /\ PodExists(cur.privPodName)
    /\ privPods[cur.privPodName].phase = "Running"
    /\ stored[AnnotationExecuteStatus] = StatusDone

\* The status entries of a pod, of its init containers and its containers.
AllStatuses(pod) ==
    {pod.initContainerStatuses[i] : i \in DOMAIN pod.initContainerStatuses}
        \cup {pod.containerStatuses[i] : i \in DOMAIN pod.containerStatuses}

\* Where "://" begins in an identifier scheme://<id>, 0 when it has none.
SchemeEnd(cid) ==
    LET at == {i \in 1..(Len(cid) - 2) : SubSeq(cid, i, i + 2) = <<":", "/", "/">>}
    IN  IF at = {} THEN 0 ELSE CHOOSE i \in at : \A j \in at : i <= j

\* <id> of scheme://<id>.
WithoutScheme(cid) == SubSeq(cid, SchemeEnd(cid) + 3, Len(cid))

\* C18: when the target has a status entry, of an init container or of a
\* regular container, named like the container annotation and with an
\* identifier scheme://<id>, the resolution finds <id> as the container ID.
C18_ResolvesInitAndRegular ==
    call.op = "resolve" /\ call.phase # "ready" =>
        \A e \in AllStatuses(target) :
            e.Name = call.name /\ SchemeEnd(e.ContainerID) > 0 =>
                /\ call.phase \in {"found", "resolved", "returned"}
                /\ call.error.kind # "no matching container ID"
                /\ call.id = WithoutScheme(e.ContainerID)

\* C19: when no status entry named like the container annotation has a
\* populated identifier (there is no such entry, or its identifier is empty or
\* shorter than the scheme prefix), the resolution returns the not-found error
\* and does not crash.
C19_UnpopulatedIsNotFound ==
    call.op = "resolve" /\ call.phase # "ready" =>
        ((\A e \in AllStatuses(target) :
              e.Name = call.name => Len(e.ContainerID) < SchemePrefixLen)
         => /\ call.phase = "returned"
            /\ call.error.kind = "no matching container ID")

\* The calls of one operation in the log of the run of handleUpdate.
Calls(op) == {i \in DOMAIN log : log[i].op = op}

\* The log has the successful call (op, arg) at a place before i.
OkBefore(op, arg, i) == \E j \in 1..(i - 1) : log[j] = Did(op, arg, TRUE)

\* C20: in every run of the active-handler a failed step is the last one: a
\* failed in-progress write is followed by no pod creation, watch, remote
\* command or done write; a failed container ID or node name resolution by no
\* pod creation; a failed provisioning by no remote command; a failed PID
\* resolution or nsenter by no done write; and status done is written only
\* after the in-progress write, the creation, the wait for Running and both
\* remote commands succeeded.
C20_StepsShortCircuit ==
    /\ (\E i \in Entries("patch", StatusInProgress) : ~log[i].ok)
          => Calls("create") \cup Calls("watch") \cup Calls("exec")
                \cup Entries("patch", StatusDone) = {}
    /\ (pc \notin {"idle", "active_inprogress"}
          /\ cur.err.kind \in {"no matching container ID", "failed to detect target node"})
          => Calls("create") \cup Calls("watch") \cup Calls("exec")
                \cup Entries("patch", StatusDone) = {}
    /\ ((\E i \in Calls("create") : ~log[i].ok)
          \/ (\E i \in Calls("watch") : ~log[i].ok))
          => Calls("exec") \cup Entries("patch", StatusDone) = {}
    /\ (\E i \in Calls("exec") : ~log[i].ok) => Entries("patch", StatusDone) = {}
    /\ \A i \in Entries("patch", StatusDone) :
          /\ OkBefore("handleActiveStatus", "call", i)
          /\ OkBefore("patch", StatusInProgress, i)
          /\ OkBefore("create", cur.nodeName, i)
          /\ OkBefore("watch", "Running", i)
          /\ OkBefore("exec", "docker inspect", i)
          /\ OkBefore("exec", "nsenter", i)
          /\ cur.containerID # <<>>
          /\ cur.nodeName # ""

\* A run whose nsenter command failed has returned with no done write, and
\* handleUpdate goes on to its cleanup.
C20_Witness ==
    /\ \E i \in Entries("exec", "nsenter") : ~log[i].ok
    /\ \E i \in DOMAIN log : log[i] = Did("handleActiveStatus", "return", FALSE)
    /\ Entries("exec", "docker inspect") # {}
    /\ Entries("patch", StatusDone) = {}
    /\ PodExists(cur.privPodName)

\* C21: the stored status becomes done only by the done write of the
\* active-handler that has served the request the pod then carries (its
\* container and action are those of the handler's event), and that write is
\* the handler's last effect: in that step the handler and Process return nil
\* and the done event is queued behind the events already waiting. The
\* done-handler starts only from the idle worker, on a queued event whose
\* snapshot has status done, and no run of handleUpdate calls both handlers.
C21_DoneAfterActive ==
    /\ [][stored'[AnnotationExecuteStatus] = StatusDone
            /\ stored[AnnotationExecuteStatus] # StatusDone
          => /\ pc = "active_done"
             /\ pc' = "returned"
             /\ log' = log \o << Did("patch", StatusDone, TRUE),
                                  Did("handleActiveStatus", "return", TRUE),
                                  Did("Process", "return", TRUE) >>
             /\ queue' = Append(queue, [old |-> stored, new |-> stored'])
             /\ stored'[AnnotationExecuteContainer] = cur.event[AnnotationExecuteContainer]
             /\ stored'[AnnotationExecuteAction] = cur.event[AnnotationExecuteAction]]_vars
    /\ [][Len(queue') > Len(queue)
          => queue' = Append(queue, [old |-> stored, new |-> stored'])]_vars
    /\ [][Entries("handleDoneStatus", "call")' # {} /\ Entries("handleDoneStatus", "call") = {}
          => /\ pc = "idle"
             /\ queue # <<>>
             /\ Head(queue).new[AnnotationExecuteStatus] = StatusDone
             /\ queue' = Tail(queue)]_vars
    /\ [](Entries("handleActiveStatus", "call") = {}
            \/ Entries("handleDoneStatus", "call") = {})

\* C22: an annotation other than the protocol keys that another actor has
\* written after the snapshot of the event was taken (the stored value is not
\* the snapshot's) still has the other actor's value after every patch of the
\* controller, upsert or deletion.
C22_OtherWritesPreserved ==
    [][ControllerStep /\ cur.accepted =>
          \A k \in Keys \ ProtocolKeys :
              stored[k] # Absent /\ stored[k] # cur.event[k] => stored'[k] = stored[k]]_vars

\* The step is a patch call of the controller on the target pod.
PatchStep == Len(log') > Len(log) /\ log'[Len(log) + 1].op = "patch"

\* The client has written the protocol keys anew since the snapshot of the
\* event was taken: status active is stored with a container or action that
\* is not the snapshot's.
RewrittenByClient ==
    /\ stored[AnnotationExecuteStatus] = StatusActive
    /\ \/ stored[AnnotationExecuteContainer] # cur.event[AnnotationExecuteContainer]
       \/ stored[AnnotationExecuteAction] # cur.event[AnnotationExecuteAction]

\* C23: when the stored status annotation was written by another actor after
\* the snapshot the patch is computed from, the controller's upsert of the
\* status key returns an error and the stored annotations keep the other
\* actor's value.
C23_RacingUpsertFails ==
    [][pc # "idle" /\ cur.accepted /\ RewrittenByClient /\ PatchStep
          => /\ ~log'[Len(log) + 1].ok
             /\ stored' = stored]_vars

\* C24: every pod the controller creates has the name derived from the event
\* it is created for, is in the namespace of the privileged pods, on the node
\* of the target pod, privileged with the host's PID namespace and never
\* restarted; and every privileged pod there is stays so.
C24_PrivilegedPodShape ==
    /\ [][DOMAIN privPods' # DOMAIN privPods /\ DOMAIN privPods \subseteq DOMAIN privPods'
          => /\ pc = "active_create"
             /\ DOMAIN privPods' = DOMAIN privPods \cup {cur.privPodName}
             /\ cur.privPodName = PrivPodName(TargetPodName,
                                      cur.event[AnnotationExecuteContainer])
             /\ privPods'[cur.privPodName] =
                   [namespace |-> Namespace, nodeName |-> target.nodeName,
                    hostPID |-> TRUE, privileged |-> TRUE,
                    restartPolicy |-> "Never", phase |-> ""]]_vars
    /\ [](\A n \in DOMAIN privPods :
            /\ privPods[n].namespace = "kube-pcc"
            /\ privPods[n].nodeName = target.nodeName
            /\ privPods[n].nodeName # ""
            /\ privPods[n].hostPID
            /\ privPods[n].privileged
            /\ privPods[n].restartPolicy = "Never")

C24_Witness ==
    /\ pc = "active_getpid"
    /\ PodExists(cur.privPodName)
    /\ privPods[cur.privPodName].phase = "Running"
    /\ privPods[cur.privPodName].nodeName = "targetNode"
    /\ cur.event[AnnotationExecuteContainer] = "c_A"

\* A character of a name as the derived name has it: lower-cased, and a
\* hyphen for an underscore.
Normalised(ch) ==
    CASE ch = "_" -> "-"
      [] ch = "A" -> "a"
      [] OTHER    -> ch

\* C25: the derived name is priv-<podName>-<containerName>, lower-cased and
\* with a hyphen for every underscore; pod test-pod and container
\* target-container give priv-test-pod-target-container.
C25_DerivedName ==
    call.op = "name" /\ call.phase = "derived" =>
        LET pod  == call.podChars
            cont == call.containerChars
            out  == call.privPodName
        IN  /\ out = <<"p", "r", "i", "v", "-">>
                        \o [i \in 1..Len(pod) |-> Normalised(pod[i])]
                        \o <<"-">>
                        \o [i \in 1..Len(cont) |-> Normalised(cont[i])]
            /\ \A i \in 1..Len(out) : out[i] \notin {"_", "A"}
            /\ pod = TestPodChars /\ cont = TargetContainerChars
                  => out = <<"p", "r", "i", "v", "-", "t", "e", "s", "t", "-", "p", "o", "d",
                             "-", "t", "a", "r", "g", "e", "t", "-", "c", "o", "n", "t", "a",
                             "i", "n", "e", "r">>

C25_Witness ==
    /\ call.op = "name"
    /\ call.phase = "derived"
    /\ call.podChars = <<"A", "_">>
    /\ call.containerChars = <<"_", "A">>
    /\ call.privPodName = <<"p", "r", "i", "v", "-", "a", "-", "-", "-", "a">>

\* C26: when the active-handler comes to create the privileged pod and a pod
\* of the derived name is there already, the creation fails, the handler
\* returns that error and runs no command; every remote command of a run is
\* preceded in that run by the successful creation of the pod it runs in, and
\* no step of the handler between the creation and the command removes a pod.
C26_NoReuse ==
    /\ [][pc = "active_create" /\ pc' # pc /\ PodExists(cur.privPodName)
          => /\ pc' = "error_delete"
             /\ cur'.err.kind = "failed to create pod"
             /\ log'[Len(log) + 1] = Did("create", cur.nodeName, FALSE)
             /\ privPods' = privPods]_vars
    /\ [](\A i \in Calls("exec") :
            /\ OkBefore("create", cur.nodeName, i)
            /\ Entries("delete", "after error") \cup Entries("delete", "privileged pod")
                  \subseteq {j \in DOMAIN log : j > i})
    /\ [][(pc = "active_open" \/ pc = "active_watch" \/ pc = "active_getpid"
              \/ pc = "active_exec")
          => \A n \in DOMAIN privPods : n \in DOMAIN privPods']_vars

\* A second request finds the privileged pod of the first, which the
\* done-handler failed to delete: its creation has failed, no command has run.
C26_Witness ==
    /\ nReq = 2
    /\ pc = "error_delete"
    /\ cur.err.kind = "failed to create pod"
    /\ PodExists(cur.privPodName)
    /\ Calls("exec") = {}

\* C27: the done-handler runs only on a done status the controller wrote.
\* The controller's done write follows its in-progress write, so the event it
\* makes has status in-progress in the old object, and an event made while
\* done is stored has done there; while no client has requested anything the
\* controller has written no done, and the done-handler has not run, has
\* deleted no pod and written no annotation.
C27_DoneOnlySelfWritten ==
    /\ [](Entries("handleDoneStatus", "call") # {}
            => /\ cur.old[AnnotationExecuteStatus] \in {StatusInProgress, StatusDone}
               /\ nReq > 0)
    /\ [](nReq = 0 => Calls("delete") \cup Calls("patch") = {})

\* The handler handleUpdate runs for an event with this new object.
Dispatched(newPodResource) ==
    IF Qualifies(newPodResource) THEN Process(newPodResource) ELSE "none"

\* The values the container and the action annotation may have.
ContainerValues == ContainerNames \cup {Absent}
ActionValues == UserActions \cup {Absent}

\* C28: for an event whose status is in-progress, done or error, which
\* handler runs and which privileged pod it works on are the same whatever
\* the values of the container and the action annotation of the event.
C28_ReadsOnlyOnActive ==
    \A i \in DOMAIN queue :
        queue[i].new[AnnotationExecuteStatus] \in {StatusInProgress, StatusDone, StatusError} =>
            \A c \in ContainerValues, a \in ActionValues :
                LET e  == queue[i].new
                    e2 == [e EXCEPT ![AnnotationExecuteContainer] = c,
                                    ![AnnotationExecuteAction] = a]
                IN  /\ Dispatched(e2) = Dispatched(e)
                    /\ Dispatched(e) # "none" =>
                          PrivPodName(TargetPodName, Get(e2, AnnotationExecuteContainer))
                            = PrivPodName(TargetPodName, Get(e, AnnotationExecuteContainer))

Digits == {"0", "1", "2", "3", "4", "5", "6", "7", "8", "9"}

\* C30: for an inspection output of a quote, digits, a quote and a newline
\* getPID returns the digits and nothing else; when the inspection command
\* fails, executeNsenterCommand returns an error straight from getPID, with
\* no PID and no nsenter command put together or sent, and nsenter is sent
\* only once getPID has returned a PID.
C30_PIDFromOutput ==
    /\ [](call.op = "exec" /\ call.phase = "pid"
            /\ Len(call.output) >= 4
            /\ call.output[1] = "'"
            /\ call.output[Len(call.output) - 1] = "'"
            /\ call.output[Len(call.output)] = "\n"
            /\ (\A i \in 2..(Len(call.output) - 2) : call.output[i] \in Digits)
          => /\ call.output = <<"'">> \o call.pid \o <<"'", "\n">>
             /\ \A i \in 1..Len(call.pid) : call.pid[i] \in Digits)
    /\ [][call.op = "exec" /\ call.phase = "ready" /\ call'.phase = "returned"
          => call'.err /\ call'.pid = <<>> /\ call'.command = <<>>]_vars
    /\ [][call.op = "exec" /\ call'.command # call.command => call.phase = "pid"]_vars

C30_Witness ==
    /\ call.op = "exec"
    /\ call.phase = "pid"
    /\ call.output = <<"'", "4", "2", "'", "\n">>
    /\ call.pid = <<"4", "2">>

\* C31: the user's command is run at most once for each external write of
\* status active, whatever events are delivered.
C31_ExecutedAtMostOnce == nExec <= 1

\* C32: the cleanup after an error of one target pod's request deletes no
\* privileged pod that was provisioned for another target pod, a pod of the
\* same name in another namespace included.
C32_CleanupKeepsOthersPods ==
    [][pc = "error_delete" =>
         \A n \in DOMAIN privPods :
            n \notin DOMAIN privPods' => privPods[n].nodeName # OtherNode]_vars

\* C36: an upsert that fails at the patch submission changes nothing: the
\* annotations stored on the pod and the annotation map of the pod object
\* passed by the caller are what they were before the call.
C36_FailedUpsertChangesNothing ==
    (/\ call.phase = "returned"
     /\ call.op = "update"
     /\ call.err)
        => /\ stored = call.before
           /\ call.snapshot = call.before

\* C37: getPID returns, a PID or an error, for every output of a successful
\* docker inspect, the empty output and outputs of one or two characters
\* included: the cut never reaches outside the output.
C37_GetPIDReturns == (call.op = "exec" /\ Len(call.output) < 3) => call.phase # "crashed"

\* C34: createPrivilegedPod returns, nil or an error, for every sequence of
\* watch results: when the channel is closed or delivers an event whose object
\* is no pod before any Running event, it does not crash and does not report
\* success.
C34_ReturnsOnEveryWatchResult ==
    call.op = "createPrivilegedPod" =>
        /\ call.phase # "crashed"
        /\ (\E i \in DOMAIN call.received :
               /\ call.received[i] = NoPodObject
               /\ \A j \in 1..(i - 1) : call.received[j] # "Running")
              => ~(call.phase = "returned" /\ ~call.err)

\* C35: a step of the controller that changes the stored status stores
\* in-progress, done or error, never active, or removes the key in the
\* done-handler; the stored container and action annotations are never created
\* or given another value by the controller, only removed, together with the
\* status key, in the done-handler.
C35_ControllerWrites ==
    [][pc' # pc =>
         /\ stored'[AnnotationExecuteStatus] # stored[AnnotationExecuteStatus] =>
               \/ stored'[AnnotationExecuteStatus] \in {StatusInProgress, StatusDone, StatusError}
               \/ /\ stored'[AnnotationExecuteStatus] = Absent
                  /\ pc = "done_annotations"
         /\ \A k \in {AnnotationExecuteContainer, AnnotationExecuteAction} :
               stored'[k] # stored[k] =>
                  /\ stored'[k] = Absent
                  /\ stored'[AnnotationExecuteStatus] = Absent
                  /\ pc = "done_annotations"]_vars

C35_Witness ==
    /\ pc = "returned"
    /\ Entries("patch", "delete") # {}
    /\ \A i \in Entries("patch", "delete") : log[i].ok
    /\ \A k \in ProtocolKeys : stored[k] = Absent

\* C33: no privileged pod leaks. With every patch stored and every deletion
\* of an existing pod done, once the requests have come to rest (handleUpdate
\* has returned, no event waits, and the status is error or the three protocol
\* annotations are gone), no privileged pod with the derived name of a request
\* exists.
C33_NoLeakAtRest ==
    (/\ pc = "idle"
     /\ queue = <<>>
     /\ \/ stored[AnnotationExecuteStatus] = StatusError
        \/ \A k \in ProtocolKeys : stored[k] = Absent)
        => \A c \in ContainerNames : ~PodExists(PrivPodName(TargetPodName, c))

====
